---- MODULE Spec2Model ----
(***************************************************************************)
(* Model of process_data, the link-report cleaning pipeline of             *)
(* interlinking_streamlit.py.                                              *)
(*                                                                         *)
(* A DataFrame is a record [columns, rows]: columns is the left-to-right   *)
(* sequence of column labels, rows the top-to-bottom sequence of rows.     *)
(* A row is [index, cells]: index is the pandas index label, which every   *)
(* filter preserves, and cells maps each column label to the cell value.   *)
(* A string cell is the sequence of its characters, so that urlparse,      *)
(* str.contains, str.lower, str.endswith and the sort order are computed   *)
(* on characters.  Input domain: Source cells are strings; Destination     *)
(* and Anchor cells are strings or NaN; Status Code cells are numbers or   *)
(* NaN; the string columns have object dtype.                              *)
(***************************************************************************)
EXTENDS Integers, Sequences, FiniteSets, TLC

VARIABLES pc, df0, df, main_domain, df_status_200, df_other_status,
          unique_urls_counts, notices, ret

vars == <<pc, df0, df, main_domain, df_status_200, df_other_status,
          unique_urls_counts, notices, ret>>

---------------------------------------------------------------------------
(* Cell values *)

\* A missing cell (pandas NaN): equal to no string and to no number.
NaN == <<"NaN">>

\* A numeric cell.
Num(n) == <<"num", n>>

\* main_domain before it is assigned.
Unassigned == <<"unassigned">>

Range(s) == {s[i] : i \in 1..Len(s)}

---------------------------------------------------------------------------
(* Characters and strings *)

\* The printable ASCII characters the model uses, in code-point order.
Ascii == <<"#", "+", "-", ".", "/", ":", "?",
           "A", "B", "C", "D", "E", "F", "G", "H", "I", "J", "K", "L", "M",
           "N", "O", "P", "Q", "R", "S", "T", "U", "V", "W", "X", "Y", "Z",
           "a", "b", "c", "d", "e", "f", "g", "h", "i", "j", "k", "l", "m",
           "n", "o", "p", "q", "r", "s", "t", "u", "v", "w", "x", "y", "z">>

UpperCase == <<"A", "B", "C", "D", "E", "F", "G", "H", "I", "J", "K", "L", "M",
               "N", "O", "P", "Q", "R", "S", "T", "U", "V", "W", "X", "Y", "Z">>

LowerCase == <<"a", "b", "c", "d", "e", "f", "g", "h", "i", "j", "k", "l", "m",
               "n", "o", "p", "q", "r", "s", "t", "u", "v", "w", "x", "y", "z">>

\* Position of character c in sequence s (0 when absent).
PosIn(s, c) == IF \E i \in 1..Len(s) : s[i] = c
               THEN CHOOSE i \in 1..Len(s) : s[i] = c /\ \A j \in 1..(i - 1) : s[j] # c
               ELSE 0

\* ord(c), up to an order-preserving renumbering.
CharCode(c) == PosIn(Ascii, c)

\* str.lower() on one character and on a string.
LowerChar(c) == IF PosIn(UpperCase, c) > 0 THEN LowerCase[PosIn(UpperCase, c)] ELSE c

Lower(s) == [i \in 1..Len(s) |-> LowerChar(s[i])]

\* s[from:to] with 1-based inclusive bounds.
Slice(s, from, to) == IF from > to THEN <<>> ELSE SubSeq(s, from, to)

\* Python's a < b on strings: lexicographic by code point.
StrLess(a, b) ==
    \E k \in 1..(Len(a) + 1) :
        /\ \A j \in 1..(k - 1) : j <= Len(b) /\ a[j] = b[j]
        /\ \/ k = Len(a) + 1 /\ Len(b) >= k
           \/ k <= Len(a) /\ k <= Len(b) /\ CharCode(a[k]) < CharCode(b[k])

\* s.endswith(suffix)
EndsWith(s, suffix) ==
    /\ Len(suffix) <= Len(s)
    /\ \A i \in 1..Len(suffix) : s[Len(s) - Len(suffix) + i] = suffix[i]

\* re.search(pat, s) is not None, for patterns over Ascii whose only
\* metacharacter is ".", which matches any character.  Series.str.contains
\* is called with its default regex=True.
RegexSearch(pat, s) ==
    \E off \in 0..(Len(s) - Len(pat)) :
        \A i \in 1..Len(pat) : pat[i] = "." \/ pat[i] = s[off + i]

\* Series.str.contains(pat, na=False) on one cell.
str_contains(cell, pat) == IF cell = NaN THEN FALSE ELSE RegexSearch(pat, cell)

---------------------------------------------------------------------------
(* urllib.parse.urlparse(url).netloc *)

Letters == Range(UpperCase) \cup Range(LowerCase)

\* urllib.parse.scheme_chars, restricted to Ascii.
scheme_chars == Letters \cup {"+", "-", "."}

\* urlsplit: the url with a leading "scheme:" removed, when the text before
\* the first ":" is a non-empty run of scheme characters starting with a letter.
AfterScheme(url) ==
    LET i == PosIn(url, ":")
    IN  IF /\ i > 1
           /\ url[1] \in Letters
           /\ \A j \in 1..(i - 1) : url[j] \in scheme_chars
        THEN Slice(url, i + 1, Len(url))
        ELSE url

\* urlsplit / _splitnetloc: after "//", the text up to the first of "/", "?", "#".
Netloc(url) ==
    LET rest == AfterScheme(url)
        Delims == {i \in 3..Len(rest) : rest[i] \in {"/", "?", "#"}}
        delim == IF Delims = {} THEN Len(rest) + 1
                 ELSE CHOOSE i \in Delims : \A j \in Delims : i <= j
    IN  IF Len(rest) >= 2 /\ rest[1] = "/" /\ rest[2] = "/"
        THEN Slice(rest, 3, delim - 1)
        ELSE <<>>

extract_main_domain(url) == Netloc(url)

---------------------------------------------------------------------------
(* DataFrame operations *)

EmptyFrame == [columns |-> <<>>, rows |-> <<>>]

HasColumn(f, c) == c \in Range(f.columns)

\* df[c] at row r.
Cell(r, c) == r.cells[c]

\* df.drop(columns=S), for labels S that may or may not be columns.
DropColumns(f, S) ==
    [columns |-> SelectSeq(f.columns, LAMBDA c : c \notin S),
     rows    |-> [i \in 1..Len(f.rows) |->
                    [index |-> f.rows[i].index,
                     cells |-> [c \in (DOMAIN f.rows[i].cells) \ S |-> f.rows[i].cells[c]]]]]

\* df[mask]: the rows of f that the mask selects, in their order; kept is the
\* set of the selected rows.
SelectRows(f, kept) ==
    [columns |-> f.columns, rows |-> SelectSeq(f.rows, LAMBDA r : r \in kept)]

\* df.loc[:, first:last].columns, a label slice over a unique column index:
\* the positions from first's to last's inclusive, none when first lies right
\* of last.
LabelSlice(columns, first, last) ==
    {columns[i] : i \in PosIn(columns, first)..PosIn(columns, last)}

\* Number of elements of s equal to v.
Count(s, v) == Cardinality({i \in 1..Len(s) : s[i] = v})

\* Variant: among the equally frequent, the element inserted last.
most_common_last(s) ==
    LET best == CHOOSE i \in 1..Len(s) :
                    /\ \A j \in 1..Len(s) : Count(s, s[j]) <= Count(s, s[i])
                    /\ \A j \in (i + 1)..Len(s) : Count(s, s[j]) < Count(s, s[i]) \/ s[j] = s[i]
    IN  s[best]

\* Counter(s).most_common(1)[0][0]: the most frequent element, the one
\* inserted first among the equally frequent.
most_common(s) ==
    LET best == CHOOSE i \in 1..Len(s) :
                    /\ \A j \in 1..Len(s) : Count(s, s[j]) <= Count(s, s[i])
                    /\ \A j \in 1..(i - 1) : Count(s, s[j]) < Count(s, s[i])
    IN  s[best]

\* Column c of frame f as a sequence of cells.
Column(f, c) == [i \in 1..Len(f.rows) |-> f.rows[i].cells[c]]

---------------------------------------------------------------------------
(* Inputs: the uploaded tables *)

\* Rows of a table of the column-layout family.
MaxColumnRows == 2
\* Rows of a table of the row-content family.
MaxRows == 2
\* Rows of a table of the domain-detection family.
MaxDomainRows == 4
\* Rows of a table of the anchor-frequency family.
OveruseRows == 7

Content == <<"C", "o", "n", "t", "e", "n", "t">>
Header  == <<"H", "e", "a", "d", "e", "r">>
Filler  == <<"v">>

\* "h://a.c/p", "h://a.c/q", "h://b.c/p" and the scheme-less "a.c/p"
SrcA1 == <<"h", ":", "/", "/", "a", ".", "c", "/", "p">>
SrcA2 == <<"h", ":", "/", "/", "a", ".", "c", "/", "q">>
SrcB1 == <<"h", ":", "/", "/", "b", ".", "c", "/", "p">>
SrcNoScheme == <<"a", ".", "c", "/", "p">>

\* "h://a.c/x", "h://a.c/y", "h://a.c/z", "h://abc/x", "h://a.c/x.JS", "h://b.c/x"
DstX   == <<"h", ":", "/", "/", "a", ".", "c", "/", "x">>
DstY   == <<"h", ":", "/", "/", "a", ".", "c", "/", "y">>
DstZ   == <<"h", ":", "/", "/", "a", ".", "c", "/", "z">>
DstAbc == <<"h", ":", "/", "/", "a", "b", "c", "/", "x">>
DstJs  == <<"h", ":", "/", "/", "a", ".", "c", "/", "x", ".", "J", "S">>
DstExt == <<"h", ":", "/", "/", "b", ".", "c", "/", "x">>

AnchorT == <<"t">>
AnchorU == <<"u">>

SourcePool == {SrcA1, SrcA2, SrcB1, SrcNoScheme}
DestinationPool == {DstX, DstY, SrcA1, DstAbc, DstJs, DstExt, NaN}
StatusPool == {Num(200), Num(404), NaN}
PositionPool == {Content, Header}
AnchorPool == {AnchorT, AnchorU, <<>>, NaN}

\* A row with the given index label over the given columns; columns the
\* pipeline never reads hold a filler value.
MkRow(index, columns, src, dst, status, position, anchor) ==
    [index |-> index,
     cells |-> [c \in Range(columns) |->
                  CASE c = "Source"        -> src
                    [] c = "Destination"   -> dst
                    [] c = "Status Code"   -> status
                    [] c = "Link Position" -> position
                    [] c = "Anchor"        -> anchor
                    [] OTHER               -> Filler]]

\* A table from row contents <<src, dst, status, position, anchor>>, with the
\* RangeIndex 0, 1, ... that read_csv assigns.
MkFrame(columns, contents) ==
    [columns |-> columns,
     rows    |-> [i \in 1..Len(contents) |->
                    MkRow(i - 1, columns, contents[i][1], contents[i][2],
                          contents[i][3], contents[i][4], contents[i][5])]]

\* Sequences over S of length at most n.
SeqsUpTo(S, n) == UNION {[1..k -> S] : k \in 0..n}

\* Column-layout family: every arrangement of every subset of Source,
\* Destination, Follow, Link Path and one further label, over the first rows
\* of a fixed table.
CoreColumns == {"Source", "Destination", "Follow", "Link Path"}
FurtherColumns == {"Status Code", "Anchor", "Link Position", "Link Origin",
                   "Type", "unique_urls", "Target"}
Arrangements(S) ==
    {s \in SeqsUpTo(S, Cardinality(S)) : \A i, j \in 1..Len(s) : i # j => s[i] # s[j]}
ColumnLayouts == UNION {Arrangements(CoreColumns \cup {x}) : x \in FurtherColumns}
LayoutContents ==
    <<<<SrcA1, DstX, Num(200), Content, AnchorT>>,
      <<SrcA2, DstY, Num(404), Content, AnchorU>>,
      <<SrcA1, DstY, Num(200), Header, AnchorT>>,
      <<SrcA2, DstX, NaN, Content, AnchorU>>>>
LayoutInputs ==
    {MkFrame(columns, SubSeq(LayoutContents, 1, n)) :
        columns \in ColumnLayouts, n \in 0..MaxColumnRows}

\* Row-content family: the columns of a crawler's link export, over rows
\* that differ from a valid row in one cell.
ExportColumns == <<"Type", "Source", "Destination", "Size (Bytes)", "Alt Text",
                   "Anchor", "Status Code", "Status", "Follow", "Target", "Rel",
                   "Path Type", "Link Path", "Link Position", "Link Origin">>
RowPool ==
    {<<s, DstX, Num(200), Content, AnchorT>> : s \in SourcePool} \cup
    {<<SrcA1, d, Num(200), Content, AnchorT>> : d \in DestinationPool} \cup
    {<<SrcA1, DstX, c, Content, AnchorT>> : c \in StatusPool} \cup
    {<<SrcA1, DstX, Num(200), p, AnchorT>> : p \in PositionPool} \cup
    {<<SrcA1, DstX, Num(200), Content, a>> : a \in AnchorPool}
RowInputs == {MkFrame(ExportColumns, rs) : rs \in SeqsUpTo(RowPool, MaxRows)}

\* Domain-detection family: any Source values over a fixed Destination.
DomainInputs ==
    {MkFrame(<<"Source", "Destination">>,
             [i \in 1..Len(ss) |-> <<ss[i], DstX, NaN, NaN, NaN>>]) :
        ss \in SeqsUpTo(SourcePool, MaxDomainRows)}

\* Anchor-frequency family: OveruseRows rows, each with either anchor.  The
\* Sources cycle through four pages and the Destinations advance once per
\* cycle, so that the (Source, Destination) pairs are distinct; in one
\* variant row 5 repeats the pair of row 1 and in another row 1 is a self-link.
OveruseSources == <<SrcA1, SrcA2, SrcB1, SrcNoScheme>>
OveruseDestinations == <<DstX, DstY, DstZ>>
DistinctPairs == [i \in 1..OveruseRows |->
                    OveruseDestinations[((i - 1) \div Len(OveruseSources)) + 1]]
OveruseInputs ==
    {MkFrame(<<"Source", "Destination", "Anchor">>,
             [i \in 1..OveruseRows |->
                <<OveruseSources[((i - 1) % Len(OveruseSources)) + 1],
                  ds[i], NaN, NaN, as[i]>>]) :
        ds \in {DistinctPairs,
                [DistinctPairs EXCEPT ![Len(OveruseSources) + 1] = DstX],
                [DistinctPairs EXCEPT ![1] = SrcA1]},
        as \in [1..OveruseRows -> {AnchorT, AnchorU}]}

Inputs == LayoutInputs \cup RowInputs \cup DomainInputs \cup OveruseInputs

---------------------------------------------------------------------------
(* Notices: st.error, st.warning, st.success *)

Notice(level, text) == [level |-> level, text |-> text]

ErrNoSource      == Notice("error", "The uploaded CSV does not contain a 'Source' column.")
ErrNoDomains     == Notice("error", "No domains found in the 'Source' column.")
ErrNoDestination == Notice("error", "The uploaded CSV does not contain a 'Destination' column.")
ErrDestinationMissing == Notice("error", "The 'Destination' column is missing.")
OkMainDomain     == Notice("success", "Main domain detected: {main_domain}")
WarnLinkPosition == Notice("warning", "Column 'Link Position' not found. Skipping this filter.")
WarnStatusCode   == Notice("warning", "Column 'Status Code' not found. Skipping status code filtering.")
WarnAnchor       == Notice("warning", "Column 'Anchor' not found. Skipping this filter.")

\* What process_data hands back: nothing yet, (None, None), the two tables,
\* or an exception that leaves the function.
Running == "running"
ReturnedNone == "None, None"
ReturnedTables == "df_status_200, unique_urls_counts"
RaisedKeyError == "KeyError"

---------------------------------------------------------------------------
(* process_data *)

Init ==
    /\ df0 \in Inputs
    /\ df = df0
    /\ pc = "CheckSource"
    /\ main_domain = Unassigned
    /\ df_status_200 = EmptyFrame
    /\ df_other_status = EmptyFrame
    /\ unique_urls_counts = <<>>
    /\ notices = <<>>
    /\ ret = Running

\* return None, None after st.error(e)
Fail(e) ==
    /\ notices' = Append(notices, e)
    /\ ret' = ReturnedNone
    /\ pc' = "done"

\* Lines 14-16.
CheckSource ==
    /\ pc = "CheckSource"
    /\ IF ~HasColumn(df, "Source")
       THEN Fail(ErrNoSource)
       ELSE pc' = "DetectMainDomain" /\ UNCHANGED <<notices, ret>>
    /\ UNCHANGED <<df0, df, main_domain, df_status_200, df_other_status, unique_urls_counts>>

\* Lines 18-27.
DetectMainDomain ==
    /\ pc = "DetectMainDomain"
    /\ LET domains == [i \in 1..Len(df.rows) |-> extract_main_domain(Cell(df.rows[i], "Source"))]
       IN  IF Len(domains) = 0
           THEN Fail(ErrNoDomains) /\ UNCHANGED main_domain
           ELSE /\ main_domain' = most_common(domains)
                /\ notices' = Append(notices, OkMainDomain)
                /\ pc' = "DropInitial"
                /\ UNCHANGED ret
    /\ UNCHANGED <<df0, df, df_status_200, df_other_status, unique_urls_counts>>

columns_to_drop_initial == {"Size (Bytes)", "Alt Text", "Status", "Type"}

\* Lines 30-32.
DropInitial ==
    /\ pc = "DropInitial"
    /\ df' = DropColumns(df, columns_to_drop_initial)
    /\ pc' = "DropRange"
    /\ UNCHANGED <<df0, main_domain, df_status_200, df_other_status,
                   unique_urls_counts, notices, ret>>

\* Lines 35-37.
DropRange ==
    /\ pc = "DropRange"
    /\ df' = IF HasColumn(df, "Follow") /\ HasColumn(df, "Link Path")
             THEN DropColumns(df, LabelSlice(df.columns, "Follow", "Link Path"))
             ELSE df
    /\ pc' = "FilterLinkPosition"
    /\ UNCHANGED <<df0, main_domain, df_status_200, df_other_status,
                   unique_urls_counts, notices, ret>>

\* Lines 40-43.
FilterLinkPosition ==
    /\ pc = "FilterLinkPosition"
    /\ IF HasColumn(df, "Link Position")
       THEN /\ df' = SelectRows(df, {r \in Range(df.rows) : Cell(r, "Link Position") = Content})
            /\ UNCHANGED notices
       ELSE /\ notices' = Append(notices, WarnLinkPosition)
            /\ UNCHANGED df
    /\ pc' = "DropFinal"
    /\ UNCHANGED <<df0, main_domain, df_status_200, df_other_status,
                   unique_urls_counts, ret>>

columns_to_drop_final == {"Link Origin", "Link Position"}

\* Lines 46-48.
DropFinal ==
    /\ pc = "DropFinal"
    /\ df' = DropColumns(df, columns_to_drop_final)
    /\ pc' = "FilterDestination"
    /\ UNCHANGED <<df0, main_domain, df_status_200, df_other_status,
                   unique_urls_counts, notices, ret>>

\* Variant: a missing Destination column is treated like a missing optional
\* column, with a notice and no failure.
FilterDestinationLenient ==
    /\ pc = "FilterDestination"
    /\ IF HasColumn(df, "Destination")
       THEN /\ df' = SelectRows(df, {r \in Range(df.rows) : str_contains(Cell(r, "Destination"), main_domain)})
            /\ UNCHANGED notices
       ELSE /\ notices' = Append(notices, ErrNoDestination)
            /\ UNCHANGED df
    /\ pc' = "SplitStatus"
    /\ UNCHANGED <<df0, main_domain, df_status_200, df_other_status, unique_urls_counts, ret>>

\* Lines 51-55.
FilterDestination ==
    /\ pc = "FilterDestination"
    /\ IF HasColumn(df, "Destination")
       THEN /\ df' = SelectRows(df, {r \in Range(df.rows) : str_contains(Cell(r, "Destination"), main_domain)})
            /\ pc' = "SplitStatus"
            /\ UNCHANGED <<notices, ret>>
       ELSE Fail(ErrNoDestination) /\ UNCHANGED df
    /\ UNCHANGED <<df0, main_domain, df_status_200, df_other_status, unique_urls_counts>>

\* Lines 58-64.
SplitStatus ==
    /\ pc = "SplitStatus"
    /\ IF HasColumn(df, "Status Code")
       THEN /\ df_status_200' = SelectRows(df, {r \in Range(df.rows) : Cell(r, "Status Code") = Num(200)})
            /\ df_other_status' = SelectRows(df, {r \in Range(df.rows) : Cell(r, "Status Code") # Num(200)})
            /\ UNCHANGED notices
       ELSE /\ notices' = Append(notices, WarnStatusCode)
            /\ df_status_200' = df
            /\ df_other_status' = EmptyFrame
    /\ pc' = "DropStatusCode"
    /\ UNCHANGED <<df0, df, main_domain, unique_urls_counts, ret>>

\* Lines 67-68.
DropStatusCode ==
    /\ pc = "DropStatusCode"
    /\ df_status_200' = IF HasColumn(df_status_200, "Status Code")
                        THEN DropColumns(df_status_200, {"Status Code"})
                        ELSE df_status_200
    /\ pc' = "DropDuplicates"
    /\ UNCHANGED <<df0, df, main_domain, df_other_status, unique_urls_counts, notices, ret>>

\* df.drop_duplicates(subset=[a, b]): a row stays unless an earlier row has
\* the same two cells.
drop_duplicates(f, a, b) ==
    [columns |-> f.columns,
     rows    |-> LET keep == {i \in 1..Len(f.rows) :
                                \A j \in 1..(i - 1) :
                                    \/ Cell(f.rows[j], a) # Cell(f.rows[i], a)
                                    \/ Cell(f.rows[j], b) # Cell(f.rows[i], b)}
                 IN  SelectSeq(f.rows, LAMBDA r : \E i \in keep : f.rows[i] = r)]

\* Line 71.  drop_duplicates raises KeyError for a subset label that is not
\* a column, and the exception leaves process_data.
DropDuplicates ==
    /\ pc = "DropDuplicates"
    /\ IF HasColumn(df_status_200, "Source") /\ HasColumn(df_status_200, "Destination")
       THEN /\ df_status_200' = drop_duplicates(df_status_200, "Source", "Destination")
            /\ pc' = "FilterExtensions"
            /\ UNCHANGED ret
       ELSE /\ ret' = RaisedKeyError
            /\ pc' = "done"
            /\ UNCHANGED df_status_200
    /\ UNCHANGED <<df0, df, main_domain, df_other_status, unique_urls_counts, notices>>

\* Lines 74-79.
unwanted_extensions ==
    {<<".", "j", "p", "g">>, <<".", "j", "p", "e", "g">>, <<".", "p", "n", "g">>,
     <<".", "g", "i", "f">>, <<".", "b", "m", "p">>, <<".", "s", "v", "g">>,
     <<".", "m", "p", "4">>, <<".", "a", "v", "i">>, <<".", "m", "o", "v">>,
     <<".", "w", "m", "v">>, <<".", "f", "l", "v">>,
     <<".", "m", "p", "3">>, <<".", "w", "a", "v">>, <<".", "o", "g", "g">>,
     <<".", "j", "s">>, <<".", "c", "s", "s">>, <<".", "p", "d", "f">>,
     <<".", "d", "o", "c">>, <<".", "d", "o", "c", "x">>}

\* Lines 82-86.
FilterExtensions ==
    /\ pc = "FilterExtensions"
    /\ IF HasColumn(df_status_200, "Destination")
       THEN /\ df_status_200' =
                  SelectRows(df_status_200,
                             {r \in Range(df_status_200.rows) : ~\E e \in unwanted_extensions :
                                            EndsWith(Lower(Cell(r, "Destination")), e)})
            /\ pc' = "FilterAnchorPresent"
            /\ UNCHANGED <<notices, ret>>
       ELSE Fail(ErrDestinationMissing) /\ UNCHANGED df_status_200
    /\ UNCHANGED <<df0, df, main_domain, df_other_status, unique_urls_counts>>

\* Lines 89-92.
FilterAnchorPresent ==
    /\ pc = "FilterAnchorPresent"
    /\ IF HasColumn(df_status_200, "Anchor")
       THEN /\ df_status_200' =
                  SelectRows(df_status_200,
                             {r \in Range(df_status_200.rows) : Cell(r, "Anchor") # NaN /\ Cell(r, "Anchor") # <<>>})
            /\ UNCHANGED notices
       ELSE /\ notices' = Append(notices, WarnAnchor)
            /\ UNCHANGED df_status_200
    /\ pc' = "FilterAnchorOveruse"
    /\ UNCHANGED <<df0, df, main_domain, df_other_status, unique_urls_counts, ret>>

\* Series.value_counts(): each non-missing value with its number of
\* occurrences.
value_counts(s) == [v \in Range(s) \ {NaN} |-> Count(s, v)]

\* Line 97: anchor_counts > 5
AnchorLimit == 5

\* Variant: anchor_counts >= 5
OverusedAnchorsAtLeast(f) ==
    LET anchor_counts == value_counts(Column(f, "Anchor"))
    IN  {a \in DOMAIN anchor_counts : anchor_counts[a] >= AnchorLimit}

\* anchor_counts[anchor_counts > 5].index
OverusedAnchors(f) ==
    LET anchor_counts == value_counts(Column(f, "Anchor"))
    IN  {a \in DOMAIN anchor_counts : anchor_counts[a] > AnchorLimit}

\* Variant: the second Anchor warning is left out.
FilterAnchorOveruseSilent ==
    /\ pc = "FilterAnchorOveruse"
    /\ df_status_200' =
           IF HasColumn(df_status_200, "Anchor")
           THEN SelectRows(df_status_200,
                           {r \in Range(df_status_200.rows) : Cell(r, "Anchor") \notin OverusedAnchors(df_status_200)})
           ELSE df_status_200
    /\ pc' = "FilterSelfLink"
    /\ UNCHANGED <<df0, df, main_domain, df_other_status, unique_urls_counts, notices, ret>>

\* Lines 95-99.
FilterAnchorOveruse ==
    /\ pc = "FilterAnchorOveruse"
    /\ IF HasColumn(df_status_200, "Anchor")
       THEN /\ df_status_200' =
                  SelectRows(df_status_200,
                             {r \in Range(df_status_200.rows) : Cell(r, "Anchor") \notin OverusedAnchors(df_status_200)})
            /\ UNCHANGED notices
       ELSE /\ notices' = Append(notices, WarnAnchor)
            /\ UNCHANGED df_status_200
    /\ pc' = "FilterSelfLink"
    /\ UNCHANGED <<df0, df, main_domain, df_other_status, unique_urls_counts, ret>>

\* Line 102.
FilterSelfLink ==
    /\ pc = "FilterSelfLink"
    /\ df_status_200' =
           SelectRows(df_status_200, {r \in Range(df_status_200.rows) : Cell(r, "Source") # Cell(r, "Destination")})
    /\ pc' = "CountUniqueUrls"
    /\ UNCHANGED <<df0, df, main_domain, df_other_status, unique_urls_counts, notices, ret>>

\* df[c] = df[from]: overwrites column c in place, or appends it as the last
\* column when the frame has no column c.
AssignColumn(f, c, from) ==
    [columns |-> IF HasColumn(f, c) THEN f.columns ELSE Append(f.columns, c),
     rows    |-> [i \in 1..Len(f.rows) |->
                    [index |-> f.rows[i].index,
                     cells |-> [k \in (DOMAIN f.rows[i].cells) \cup {c} |->
                                  IF k = c THEN f.rows[i].cells[from]
                                  ELSE f.rows[i].cells[k]]]]]

\* The orders in which a sort by descending count can leave the entries:
\* entries with equal counts come in any order.
RECURSIVE DescendingByCount(_)
DescendingByCount(entries) ==
    IF entries = {} THEN {<<>>}
    ELSE LET top == {x \in entries : \A y \in entries : y.count <= x.count}
         IN  UNION {{<<x>> \o rest : rest \in DescendingByCount(entries \ {x})} : x \in top}

\* value_counts().reset_index() with columns renamed to unique_urls, count.
CountTables(vc) ==
    DescendingByCount({[unique_urls |-> v, count |-> vc[v]] : v \in DOMAIN vc})

\* Variant: the counts are taken from df, the frame before the status split.
CountUniqueUrlsFromDf ==
    /\ pc = "CountUniqueUrls"
    /\ LET with_copy == AssignColumn(df_status_200, "unique_urls", "Destination")
       IN  /\ unique_urls_counts' \in CountTables(value_counts(Column(df, "Destination")))
           /\ df_status_200' = DropColumns(with_copy, {"unique_urls"})
    /\ pc' = "SortAndReturn"
    /\ UNCHANGED <<df0, df, main_domain, df_other_status, notices, ret>>

\* Lines 105-112.
CountUniqueUrls ==
    /\ pc = "CountUniqueUrls"
    /\ LET with_copy == AssignColumn(df_status_200, "unique_urls", "Destination")
       IN  /\ unique_urls_counts' \in CountTables(value_counts(Column(with_copy, "Destination")))
           /\ df_status_200' = DropColumns(with_copy, {"unique_urls"})
    /\ pc' = "SortAndReturn"
    /\ UNCHANGED <<df0, df, main_domain, df_other_status, notices, ret>>

\* df.sort_values(by=c) with the default, unstable sort: the rows in
\* ascending order of column c, rows with equal cells in any order.
RECURSIVE SortedBy(_, _)
SortedBy(rows, c) ==
    IF rows = {} THEN {<<>>}
    ELSE LET least == {x \in rows : \A y \in rows : ~StrLess(Cell(y, c), Cell(x, c))}
         IN  UNION {{<<x>> \o rest : rest \in SortedBy(rows \ {x}, c)} : x \in least}

sort_values(f, c) == {[columns |-> f.columns, rows |-> rs] : rs \in SortedBy(Range(f.rows), c)}

\* Lines 115-117.
SortAndReturn ==
    /\ pc = "SortAndReturn"
    /\ df_status_200' \in sort_values(df_status_200, "Source")
    /\ ret' = ReturnedTables
    /\ pc' = "done"
    /\ UNCHANGED <<df0, df, main_domain, df_other_status, unique_urls_counts, notices>>

Next ==
    \/ CheckSource
    \/ DetectMainDomain
    \/ DropInitial
    \/ DropRange
    \/ FilterLinkPosition
    \/ DropFinal
    \/ FilterDestination
    \/ SplitStatus
    \/ DropStatusCode
    \/ DropDuplicates
    \/ FilterExtensions
    \/ FilterAnchorPresent
    \/ FilterAnchorOveruse
    \/ FilterSelfLink
    \/ CountUniqueUrls
    \/ SortAndReturn

Spec == Init /\ [][Next]_vars

---------------------------------------------------------------------------
(* Properties *)

Done == pc = "done"
Succeeded == ret = ReturnedTables
CleanedTable == df_status_200
UrlCountTable == unique_urls_counts
InputHas(c) == c \in Range(df0.columns)
LastNotice == notices[Len(notices)]

\* sub occurs in s as a literal substring.
IsSubstring(sub, s) ==
    \E off \in 0..(Len(s) - Len(sub)) : \A i \in 1..Len(sub) : s[off + i] = sub[i]

\* The input row with index label k.
InputRow(k) == df0.rows[k + 1]

\* C1 as claimed: an input without Source or without Destination, of any
\* row count, ends with the error that names the missing column and with no
\* tables.
C1_MissingColumnNamed ==
    (Done /\ (~InputHas("Source") \/ ~InputHas("Destination"))) =>
        /\ ret = ReturnedNone
        /\ LastNotice = IF ~InputHas("Source") THEN ErrNoSource ELSE ErrNoDestination

\* C1 as amended: an input without Source or without Destination never
\* yields tables and never raises; it ends with the Source error when Source
\* is missing, with the no-domains error when Source is present and the table
\* has no rows, and with the Destination error otherwise.
C1_MissingColumnFails ==
    (~InputHas("Source") \/ ~InputHas("Destination")) =>
        /\ ret \in {Running, ReturnedNone}
        /\ unique_urls_counts = <<>>
        /\ Done =>
             /\ ret = ReturnedNone
             /\ LastNotice = IF ~InputHas("Source") THEN ErrNoSource
                             ELSE IF Len(df0.rows) = 0 THEN ErrNoDomains
                             ELSE ErrNoDestination

C1_Witness ==
    /\ Done
    /\ InputHas("Source") /\ ~InputHas("Destination")
    /\ Len(df0.rows) > 0
    /\ ret = ReturnedNone
    /\ LastNotice = ErrNoDestination

C1_ZeroRowWitness ==
    /\ Done
    /\ InputHas("Source") /\ ~InputHas("Destination")
    /\ Len(df0.rows) = 0
    /\ LastNotice = ErrNoDomains

\* C2 as claimed: an input with at least one row and both Source and
\* Destination, in any column order, ends with the two tables.
C2_RequiredColumnsSuffice ==
    (Done /\ Len(df0.rows) >= 1 /\ InputHas("Source") /\ InputHas("Destination")) =>
        Succeeded

\* The network locations of the input's Source cells, in row order.
SourceDomains == [i \in 1..Len(df0.rows) |-> Netloc(Cell(df0.rows[i], "Source"))]
Occurrences(s, v) == Cardinality({i \in 1..Len(s) : s[i] = v})
FirstSeen(s, v) == CHOOSE i \in 1..Len(s) : s[i] = v /\ \A j \in 1..(i - 1) : s[j] # v
Detected == main_domain # Unassigned

\* C3 as claimed: the detected main domain is the network location of the
\* most frequent Source value; among equally frequent Source values, of the
\* one whose domain appears first in row order.
C3_DomainOfMostFrequentSource ==
    Detected =>
        LET sources == Column(df0, "Source")
            top == {v \in Range(sources) :
                      \A w \in Range(sources) : Occurrences(sources, w) <= Occurrences(sources, v)}
            expected == CHOOSE d \in {Netloc(v) : v \in top} :
                          \A e \in {Netloc(v) : v \in top} :
                              FirstSeen(SourceDomains, d) <= FirstSeen(SourceDomains, e)
        IN  main_domain = expected

\* C3 as amended: for an input with Source and at least one row, once
\* detection has run the main domain is the most frequent network location
\* among the Source cells (domains are counted, not whole Source values);
\* among equally frequent domains, the one that appears first in row order.
C3_MostFrequentDomain ==
    (InputHas("Source") /\ Len(df0.rows) >= 1 /\ pc \notin {"CheckSource", "DetectMainDomain"}) =>
        /\ Detected
        /\ main_domain \in Range(SourceDomains)
        /\ \A d \in Range(SourceDomains) :
             \/ Occurrences(SourceDomains, d) < Occurrences(SourceDomains, main_domain)
             \/ /\ Occurrences(SourceDomains, d) = Occurrences(SourceDomains, main_domain)
                /\ FirstSeen(SourceDomains, main_domain) <= FirstSeen(SourceDomains, d)

\* A tie between two domains, settled for the one seen first, in a table
\* whose most frequent Source value belongs to the other domain.
C3_Witness ==
    /\ Detected
    /\ \E d \in Range(SourceDomains) :
         /\ d # main_domain
         /\ Occurrences(SourceDomains, d) = Occurrences(SourceDomains, main_domain)
         /\ FirstSeen(SourceDomains, main_domain) < FirstSeen(SourceDomains, d)

RECURSIVE SumCounts(_)
SumCounts(t) == IF t = <<>> THEN 0 ELSE t[1].count + SumCounts(Tail(t))

\* C4: on a successful run the counts of UrlCountTable sum to the number of
\* rows of CleanedTable, every Destination of CleanedTable has exactly one
\* entry, whose count is its frequency in CleanedTable, and there is no other
\* entry.
C4_CountsMatchCleaned ==
    Succeeded =>
        LET dests == Column(CleanedTable, "Destination")
        IN  /\ SumCounts(UrlCountTable) = Len(CleanedTable.rows)
            /\ \A d \in Range(dests) :
                 /\ Cardinality({i \in 1..Len(UrlCountTable) : UrlCountTable[i].unique_urls = d}) = 1
                 /\ \E i \in 1..Len(UrlCountTable) :
                      /\ UrlCountTable[i].unique_urls = d
                      /\ UrlCountTable[i].count = Occurrences(dests, d)
            /\ \A i \in 1..Len(UrlCountTable) : UrlCountTable[i].unique_urls \in Range(dests)

\* A successful run that dropped a row after the Destination filter and
\* whose count table has two entries, one of them for a repeated Destination.
C4_Witness ==
    /\ Succeeded
    /\ Len(UrlCountTable) >= 2
    /\ \E i \in 1..Len(UrlCountTable) : UrlCountTable[i].count >= 2
    /\ Len(CleanedTable.rows) < Len(df.rows)

\* C5 as claimed: on a successful run every Destination of CleanedTable
\* contains the detected main domain as a literal substring.
C5_DestinationContainsMainDomain ==
    Succeeded =>
        \A i \in 1..Len(CleanedTable.rows) :
            IsSubstring(main_domain, Cell(CleanedTable.rows[i], "Destination"))

\* C6 as claimed: when the input has a Status Code column, every row of
\* CleanedTable is an input row whose Status Code is 200.
C6_OnlyStatus200 ==
    (Succeeded /\ InputHas("Status Code")) =>
        \A i \in 1..Len(CleanedTable.rows) :
            Cell(InputRow(CleanedTable.rows[i].index), "Status Code") = Num(200)

\* Number of rows of frame f whose Anchor cell is a.
AnchorRows(f, a) == Cardinality({i \in 1..Len(f.rows) : Cell(f.rows[i], "Anchor") = a})

\* The overuse step, when the frame it receives has an Anchor column, keeps
\* exactly the rows whose Anchor occurs at most 5 times in that frame, and
\* changes nothing else of the frame.
C7_Step ==
    (pc = "FilterAnchorOveruse" /\ HasColumn(df_status_200, "Anchor")) =>
        /\ df_status_200'.columns = df_status_200.columns
        /\ df_status_200'.rows =
             SelectSeq(df_status_200.rows,
                       LAMBDA r : ~(AnchorRows(df_status_200, Cell(r, "Anchor")) > 5))

\* Inputs whose only columns are Source, Destination and Anchor.
AnchorTable == Range(df0.columns) = {"Source", "Destination", "Anchor"}

\* The input rows that are valid but for the frequency of their anchor and
\* for being a self-link: the Destination passes the main-domain and the
\* extension filters and no earlier row has the same (Source, Destination).
OtherwiseValidRows ==
    {i \in 1..Len(df0.rows) :
        LET r == df0.rows[i]
        IN  /\ str_contains(Cell(r, "Destination"), main_domain)
            /\ ~\E e \in unwanted_extensions : EndsWith(Lower(Cell(r, "Destination")), e)
            /\ Cell(r, "Anchor") \notin {NaN, <<>>}
            /\ \A j \in 1..(i - 1) :
                 \/ Cell(df0.rows[j], "Source") # Cell(r, "Source")
                 \/ Cell(df0.rows[j], "Destination") # Cell(r, "Destination")}

\* On a successful run over such an input, an anchor carried by more than 5
\* otherwise-valid rows (self-links counted, repeated pairs not) has no row in
\* CleanedTable, and an anchor carried by at most 5 has all of its
\* otherwise-valid rows there but the self-links.
C7_Scenario ==
    (Succeeded /\ AnchorTable) =>
        LET valid == OtherwiseValidRows
            carrying == [a \in Range(Column(df0, "Anchor")) |->
                           {i \in valid : Cell(df0.rows[i], "Anchor") = a}]
        IN  \A a \in DOMAIN carrying :
              {CleanedTable.rows[k].index : k \in {k \in 1..Len(CleanedTable.rows) :
                                                     Cell(CleanedTable.rows[k], "Anchor") = a}}
                = IF Cardinality(carrying[a]) > 5 THEN {}
                  ELSE {i - 1 : i \in {i \in carrying[a] :
                                         Cell(df0.rows[i], "Source") # Cell(df0.rows[i], "Destination")}}

\* C7: with the Anchor column present, the overuse step drops a row if and
\* only if its Anchor occurs more than 5 times among the rows that reached the
\* step, which are the rows left by the dedup, extension and anchor-presence
\* steps and not yet by the self-link step: 6 otherwise-valid rows with one
\* anchor are all dropped, 5 are all retained in CleanedTable.
C7_OveruseDropsExactly == []C7_Scenario /\ [][C7_Step]_vars

\* A successful run in which six otherwise-valid rows, one of them a
\* self-link, share an anchor and none of them is in CleanedTable, while the
\* rows of the other anchor are.
C7_Witness ==
    /\ Succeeded /\ AnchorTable
    /\ Len(CleanedTable.rows) > 0
    /\ LET valid == OtherwiseValidRows
       IN  \E a \in Range(Column(df0, "Anchor")) :
             /\ Cardinality({i \in valid : Cell(df0.rows[i], "Anchor") = a}) = 6
             /\ \E i \in valid : /\ Cell(df0.rows[i], "Anchor") = a
                                 /\ Cell(df0.rows[i], "Source") = Cell(df0.rows[i], "Destination")
             /\ \A k \in 1..Len(CleanedTable.rows) : Cell(CleanedTable.rows[k], "Anchor") # a

\* A step that is skipped: the frame, the result and the notices stay as
\* they are but for the notices listed, and control moves to the next step.
Skips(from, to, frame, frame2, emitted) ==
    pc = from =>
        /\ pc' = to
        /\ frame2 = frame
        /\ ret' = ret
        /\ notices' = notices \o emitted

FollowToLinkPath(columns) ==
    IF "Follow" \in Range(columns) /\ "Link Path" \in Range(columns)
    THEN {columns[i] : i \in {i \in 1..Len(columns) :
                                /\ PosIn(columns, "Follow") <= i
                                /\ i <= PosIn(columns, "Link Path")}}
    ELSE {}

\* The columns between Follow and Link Path inclusive, whichever comes first.
BetweenEndpoints(columns) ==
    IF "Follow" \in Range(columns) /\ "Link Path" \in Range(columns)
    THEN {columns[i] : i \in {i \in 1..Len(columns) :
                                \/ /\ PosIn(columns, "Follow") <= i
                                   /\ i <= PosIn(columns, "Link Path")
                                \/ /\ PosIn(columns, "Link Path") <= i
                                   /\ i <= PosIn(columns, "Follow")}}
    ELSE {}

Without(columns, S) == SelectSeq(columns, LAMBDA c : c \notin S)

\* C9 as claimed: on a successful run the columns of CleanedTable are the
\* input columns, in input order, but for Size (Bytes), Alt Text, Status,
\* Type, the Follow..Link Path range, Link Origin, Link Position and Status
\* Code; every other input column is kept.
C9_ColumnsPreserved ==
    Succeeded =>
        CleanedTable.columns =
            Without(df0.columns,
                    {"Size (Bytes)", "Alt Text", "Status", "Type"}
                      \cup FollowToLinkPath(Without(df0.columns,
                                                    {"Size (Bytes)", "Alt Text", "Status", "Type"}))
                      \cup {"Link Origin", "Link Position", "Status Code"})

\* C10 as claimed: after the range drop, the columns are those before it but
\* for Follow, Link Path and the columns between them, whichever endpoint
\* comes first; with an endpoint absent they are unchanged.
C10_RangeDropEitherOrder ==
    pc = "FilterLinkPosition" =>
        LET before == Without(df0.columns, {"Size (Bytes)", "Alt Text", "Status", "Type"})
        IN  df.columns = Without(before, BetweenEndpoints(before))

===========================================================================
